---- MODULE Spec2Model ----
(***************************************************************************)
(* A model of WalletBackend (src/src/WalletBackend/WalletBackend.cpp): the *)
(* encrypted wallet container (save / openWallet), the creation and import *)
(* entry points, init(), the destructor, the move operations and the       *)
(* balance queries.                                                        *)
(*                                                                         *)
(* Bytes are numbers modulo ByteMod.  AES-256-CBC with PKCS#7 padding is   *)
(* modelled by a block cipher of BlockSize bytes that adds the key to each *)
(* byte, chained as CBC chains blocks, with the salt as the initialisation *)
(* vector; PBKDF2 by a key that depends on the password and on the salt    *)
(* and differs for different passwords under one salt.                     *)
(***************************************************************************)
EXTENDS Integers, Sequences, FiniteSets, TLC

\* ------------------------------------------------------------------ bounds
ByteMod == 4
BlockSize == 2
MaxBalance == 1
MaxAccounts == 2
MaxBuffer == 4

Byte == 0 .. (ByteMod - 1)

\* ------------------------------------------------------------- error codes
SUCCESS == "SUCCESS"
FILENAME_NON_EXISTENT == "FILENAME_NON_EXISTENT"
INVALID_WALLET_FILENAME == "INVALID_WALLET_FILENAME"
NOT_A_WALLET_FILE == "NOT_A_WALLET_FILE"
WALLET_FILE_CORRUPTED == "WALLET_FILE_CORRUPTED"
WRONG_PASSWORD == "WRONG_PASSWORD"
WALLET_FILE_ALREADY_EXISTS == "WALLET_FILE_ALREADY_EXISTS"
INVALID_MNEMONIC == "INVALID_MNEMONIC"
FAILED_TO_INIT_DAEMON == "FAILED_TO_INIT_DAEMON"
ADDRESS_NOT_VALID == "ADDRESS_NOT_VALID"
ADDRESS_NOT_IN_WALLET == "ADDRESS_NOT_IN_WALLET"
\* no error value: the call left by an exception
NONE == "NONE"

\* -------------------------------------------------------------- constants
\* Constants::IS_A_WALLET_IDENTIFIER, the unencrypted file-type tag
IS_A_WALLET_IDENTIFIER == <<1, 2>>
\* Constants::IS_CORRECT_PASSWORD_IDENTIFIER, the encrypted password tag
IS_CORRECT_PASSWORD_IDENTIFIER == <<3, 1>>
\* CryptoNote::NULL_SECRET_KEY, the all-zero key
NULL_SECRET_KEY == 0

\* ------------------------------------------------------------ byte helpers
RECURSIVE SumSeq(_)
SumSeq(s) == IF s = <<>> THEN 0 ELSE Head(s) + SumSeq(Tail(s))

Prefix(s, n) == SubSeq(s, 1, n)
Drop(s, n) == SubSeq(s, n + 1, Len(s))

\* ------------------------------------------------------- hasMagicIdentifier
\* hasMagicIdentifier comparing one byte too few
hasMagicIdentifierShortLoop(data, identifier, tooSmallError, wrongIdentifierError) ==
    IF Len(data) < Len(identifier)
    THEN [err |-> tooSmallError, data |-> data]
    ELSE IF \E i \in 1 .. (Len(identifier) - 1) : data[i] # identifier[i]
    THEN [err |-> wrongIdentifierError, data |-> data]
    ELSE [err |-> SUCCESS, data |-> SubSeq(data, Len(identifier) + 1, Len(data))]

\* The buffer is checked against the identifier and, on a match, loses its
\* first Len(identifier) bytes.
hasMagicIdentifier(data, identifier, tooSmallError, wrongIdentifierError) ==
    IF Len(data) < Len(identifier)
    THEN [err |-> tooSmallError, data |-> data]
    ELSE IF \E i \in 1 .. Len(identifier) : data[i] # identifier[i]
    THEN [err |-> wrongIdentifierError, data |-> data]
    ELSE [err |-> SUCCESS, data |-> Drop(data, Len(identifier))]

\* ------------------------------------------------------------------ crypto
\* pbkdf2.DeriveKey(key, ..., password, ..., salt, ...)
DeriveKey(password, salt) == (password + SumSeq(salt)) % ByteMod

\* PKCS#7: the padding is 1..BlockSize bytes, each holding its length
PadLen(n) == BlockSize - (n % BlockSize)
Pkcs7(plain) == plain \o [i \in 1 .. PadLen(Len(plain)) |-> PadLen(Len(plain))]

\* CBC: each block is combined with the previous ciphertext block (the
\* first with the initialisation vector) and then enciphered with the key
CbcEncrypt(p, key, iv) ==
    LET c[i \in 1 .. Len(p)] ==
            (p[i] + key + (IF i <= BlockSize THEN iv[i] ELSE c[i - BlockSize])) % ByteMod
    IN  [i \in 1 .. Len(p) |-> c[i]]

CbcDecrypt(c, key, iv) ==
    [i \in 1 .. Len(c) |->
        (c[i] + 2 * ByteMod - key - (IF i <= BlockSize THEN iv[i] ELSE c[i - BlockSize])) % ByteMod]

\* StreamTransformationFilter(cbcEncryption): Put, MessageEnd
Encrypt(plain, key, iv) == CbcEncrypt(Pkcs7(plain), key, iv)

\* StreamTransformationFilter(cbcDecryption): Put, MessageEnd.  MessageEnd
\* throws InvalidCiphertext when the input is not a positive number of whole
\* blocks or when the last block does not end in a PKCS#7 padding.
Decrypt(cipher, key, iv) ==
    IF Len(cipher) = 0 \/ Len(cipher) % BlockSize # 0
    THEN [thrown |-> TRUE, data |-> <<>>]
    ELSE LET p == CbcDecrypt(cipher, key, iv)
             pad == p[Len(p)]
         IN  IF \/ pad < 1
                \/ pad > BlockSize
                \/ \E i \in (Len(p) - pad + 1) .. Len(p) : p[i] # pad
             THEN [thrown |-> TRUE, data |-> <<>>]
             ELSE [thrown |-> FALSE, data |-> Prefix(p, Len(p) - pad)]


\* ------------------------------------------------------------- environment
\* "bad" names a place where no file can be opened for writing: a directory
\* that does not exist or, where a file is found there, a file that can only
\* be read; a file can be created and written at "w".
Paths == {"w", "bad"}
Writable(p) == p # "bad"
Passwords == {1, 2}
Salts == {[i \in 1 .. BlockSize |-> 0], [i \in 1 .. BlockSize |-> IF i = 1 THEN 1 ELSE 0]}
SpendKeys == {1, 2}
ViewKeys == {1}
Heights == {1}
Slots == {"a", "b"}

\* A file: its bytes and, for a file save() wrote and nothing changed since,
\* the password it was saved under and the document it holds (0 and <<>>
\* otherwise); neither is read by the program.
NoFile == [exists |-> FALSE, data |-> <<>>, password |-> 0, json |-> <<>>]
File(bytes) == [exists |-> TRUE, data |-> bytes, password |-> 0, json |-> <<>>]

\* ----------------------------------------------------------- key derivation
\* Crypto::secret_key_to_public_key
secret_key_to_public_key(secretKey) == (secretKey + 1) % ByteMod
\* CryptoNote::AccountBase::generateViewFromSpend
generateViewFromSpend(privateSpendKey) == 3 - privateSpendKey
\* The address holds the public spend key and the public view key
addressFromPrivateKeys(privateSpendKey, privateViewKey) ==
    <<secret_key_to_public_key(privateSpendKey), secret_key_to_public_key(privateViewKey)>>

\* ------------------------------------------------------------------ objects
\* A null shared_ptr: daemon = 0, and present = FALSE for the aggregates.
NoSubWallets == [present |-> FALSE, accounts |-> <<>>]
\* A synchronizer holds the daemon (0 for none) and the event handler it was
\* given, the height and timestamp it starts from, the private view key,
\* the blocks it has processed since (progress), whether its m_subWallets is
\* the wallet's, and the number of times start() was called.
NoSynchronizer == [present |-> FALSE, daemon |-> 0, startHeight |-> 0, startTimestamp |-> 0,
                   privateViewKey |-> 0, eventHandler |-> FALSE, progress |-> 0,
                   bound |-> FALSE, started |-> 0]

\* SubWallets(privateSpendKey, address, scanHeight, newWallet): one
\* sub-account; a new wallet is scanned from the time of its creation (1),
\* an imported one from the height given
SubWallets(privateSpendKey, address, scanHeight, newWallet) ==
    [present |-> TRUE,
     accounts |-> << [privateSpendKey |-> privateSpendKey,
                      publicSpendKey |-> secret_key_to_public_key(privateSpendKey),
                      address |-> address,
                      scanHeight |-> IF newWallet THEN 0 ELSE scanHeight,
                      balance |-> 0,
                      syncStartTimestamp |-> IF newWallet THEN 1 ELSE 0] >>]

\* SubWallets::getMinInitialSyncStart: the earliest scan height and the
\* earliest timestamp of the accounts
RECURSIVE MinHeight(_)
MinHeight(accounts) ==
    IF Len(accounts) = 1 THEN accounts[1].scanHeight
    ELSE LET m == MinHeight(Tail(accounts))
         IN  IF accounts[1].scanHeight < m THEN accounts[1].scanHeight ELSE m
RECURSIVE MinTimestamp(_)
MinTimestamp(accounts) ==
    IF Len(accounts) = 1 THEN accounts[1].syncStartTimestamp
    ELSE LET m == MinTimestamp(Tail(accounts))
         IN  IF accounts[1].syncStartTimestamp < m THEN accounts[1].syncStartTimestamp ELSE m
getMinInitialSyncStart(subWallets) == <<MinHeight(subWallets.accounts), MinTimestamp(subWallets.accounts)>>

\* WalletBackend::WalletBackend(): the default constructor.  origin and
\* movedFrom are history the program does not keep: origin tells which
\* construction path made what the object holds ("default", or "real" for
\* the key constructor and for a wallet loaded from a file), movedFrom that
\* its pointers were given away by a move since.  A move hands both on with
\* the other fields.
DefaultWalletBackend ==
    [filename |-> "", password |-> 0, privateViewKey |-> 0, isViewWallet |-> FALSE,
     daemon |-> 0, subWallets |-> NoSubWallets, walletSynchronizer |-> NoSynchronizer,
     eventHandler |-> FALSE, origin |-> "default", movedFrom |-> FALSE]

\* WalletBackend::WalletBackend(filename, password, privateSpendKey, ...)
WalletBackend(filename, password, privateSpendKey, privateViewKey, isViewWallet, scanHeight, newWallet, daemon) ==
    [filename |-> filename, password |-> password, privateViewKey |-> privateViewKey,
     isViewWallet |-> isViewWallet, daemon |-> daemon,
     subWallets |-> SubWallets(privateSpendKey,
                               addressFromPrivateKeys(privateSpendKey, privateViewKey),
                               scanHeight, newWallet),
     walletSynchronizer |-> NoSynchronizer,
     eventHandler |-> TRUE, origin |-> "real", movedFrom |-> FALSE]

\* ------------------------------------------------------- JSON serialization
\* json walletJson = *this; walletJson.dump(): the view key, the view-wallet
\* flag, the synchronizer (whether there is one, its start, its view key and
\* its progress) and the sub-accounts, as bytes.
RECURSIVE AccountsToJson(_)
AccountsToJson(accounts) ==
    IF accounts = <<>> THEN <<>>
    ELSE LET a == Head(accounts)
         IN  <<a.privateSpendKey, a.publicSpendKey, a.address[1], a.address[2],
               a.scanHeight, a.balance, a.syncStartTimestamp>> \o AccountsToJson(Tail(accounts))

ToJson(w) ==
    <<w.privateViewKey, IF w.isViewWallet THEN 1 ELSE 0,
      IF w.walletSynchronizer.present THEN 1 ELSE 0,
      w.walletSynchronizer.startHeight, w.walletSynchronizer.startTimestamp,
      w.walletSynchronizer.privateViewKey, w.walletSynchronizer.progress>>
    \o AccountsToJson(w.subWallets.accounts)

AccountBytes == 7
HeaderBytes == 7

RECURSIVE AccountsFromJson(_)
AccountsFromJson(bytes) ==
    IF bytes = <<>> THEN <<>>
    ELSE << [privateSpendKey |-> bytes[1], publicSpendKey |-> bytes[2],
             address |-> <<bytes[3], bytes[4]>>, scanHeight |-> bytes[5],
             balance |-> bytes[6], syncStartTimestamp |-> bytes[7]] >> \o AccountsFromJson(Drop(bytes, AccountBytes))

\* json::parse throws on a text that is no wallet document
JsonValid(bytes) ==
    /\ Len(bytes) >= HeaderBytes + AccountBytes
    /\ (Len(bytes) - HeaderBytes) % AccountBytes = 0
    /\ bytes[2] \in {0, 1}
    /\ bytes[3] \in {0, 1}

\* WalletBackend wallet = json::parse(decryptedData): a default-constructed
\* object filled from the document; the daemon, the event handler, the
\* filename and the password are not part of it.
FromJson(bytes) ==
    [DefaultWalletBackend EXCEPT
        !.privateViewKey = bytes[1],
        !.isViewWallet = (bytes[2] = 1),
        !.walletSynchronizer = [NoSynchronizer EXCEPT !.present = (bytes[3] = 1),
                                                      !.startHeight = bytes[4],
                                                      !.startTimestamp = bytes[5],
                                                      !.privateViewKey = bytes[6],
                                                      !.progress = bytes[7]],
        !.subWallets = [present |-> TRUE,
                        accounts |-> AccountsFromJson(Drop(bytes, HeaderBytes))]]

\* ------------------------------------------------------------------- state
VARIABLES
    fs,     \* the file at each path
    obj,    \* the caller's WalletBackend objects: [alive, w] per slot
    ret,    \* what the last call returned
    magic,  \* a buffer, an identifier and what hasMagicIdentifier made of them
    run     \* the call of init() or of the destructor that is under way

vars == <<fs, obj, ret, magic, run>>

Dead == [alive |-> FALSE, w |-> DefaultWalletBackend]
Live(w) == [alive |-> TRUE, w |-> w]

\* A NodeRpcProxy no live object holds: std::make_shared makes a new one
NewDaemon == CHOOSE d \in 1 .. (Cardinality(Slots) + 1) : \A s \in Slots : ~(obj[s].alive /\ obj[s].w.daemon = d)

\* The record of a call: the operation, the object slot (and the slot of the
\* source of a move), the arguments, and
\* what came back (err, or thrown), the stages openWallet ran, the number
\* of save() calls made, and the amount of a balance query
NoCall == [op |-> "none", slot |-> "", src |-> "", filename |-> "", password |-> 0, address |-> <<>>, err |-> NONE, thrown |-> FALSE, stages |-> <<>>, saves |-> 0, amount |-> 0]

\* What an entry point leaves: the error and the wallet of the returned
\* tuple (or thrown), and the files once its locals are destroyed
Outcome(err, wallet, files, stages, saves) == [err |-> err, thrown |-> FALSE, wallet |-> wallet, fs |-> files, stages |-> stages, saves |-> saves]
Thrown(files, stages, saves) == [err |-> NONE, thrown |-> TRUE, wallet |-> DefaultWalletBackend, fs |-> files, stages |-> stages, saves |-> saves]

\* ---------------------------------------------------------------- save, init
\* The container: the file-type tag, the salt, and the encrypted password
\* tag and document.
Container(w, salt) == IS_A_WALLET_IDENTIFIER \o salt \o Encrypt(IS_CORRECT_PASSWORD_IDENTIFIER \o ToJson(w), DeriveKey(w.password, salt), salt)

\* save() taking the file for written without looking at the stream
saveUnchecked(w, files, salt) ==
    IF ~Writable(w.filename)
    THEN [err |-> SUCCESS, fs |-> files]
    ELSE [err |-> SUCCESS, fs |-> [files EXCEPT ![w.filename] = [File(Container(w, salt)) EXCEPT !.password = w.password, !.json = ToJson(w)]]]

\* save() with the file opened for appending: the container is written after
\* what the file held
saveAppends(w, files, salt) ==
    IF ~Writable(w.filename)
    THEN [err |-> INVALID_WALLET_FILENAME, fs |-> files]
    ELSE [err |-> SUCCESS, fs |-> [files EXCEPT ![w.filename] = [File(files[w.filename].data \o Container(w, salt)) EXCEPT !.password = w.password, !.json = ToJson(w)]]]

\* WalletBackend::save: std::ofstream file(m_filename) empties the file it
\* opens, and the three parts are written to it.
save(w, files, salt) ==
    IF ~Writable(w.filename)
    THEN [err |-> INVALID_WALLET_FILENAME, fs |-> files]
    ELSE [err |-> SUCCESS, fs |-> [files EXCEPT ![w.filename] = [File(Container(w, salt)) EXCEPT !.password = w.password, !.json = ToJson(w)]]]

\* WalletBackend::~WalletBackend: the files after the object is destroyed
Destructor(w, files, salt) == IF w.daemon # 0 THEN save(w, files, salt).fs ELSE files
\* and the number of save() calls it made
DestructorSaves(w) == IF w.daemon # 0 THEN 1 ELSE 0

\* operator= without the invalidation of the old pointers
MoveSourceKeepsPointers(old) == [old EXCEPT !.movedFrom = TRUE]

\* operator= without old.m_daemon = nullptr
MoveSourceKeepsDaemon(old) ==
    [old EXCEPT !.subWallets = NoSubWallets, !.walletSynchronizer = NoSynchronizer,
                !.eventHandler = FALSE, !.movedFrom = TRUE]

\* WalletBackend::operator=(WalletBackend &&): the destination after the move
MoveTarget(old) == old
\* and the source after it
MoveSource(old) ==
    [old EXCEPT !.daemon = 0, !.subWallets = NoSubWallets,
                !.walletSynchronizer = NoSynchronizer, !.eventHandler = FALSE,
                !.movedFrom = TRUE]

\* WalletSynchronizer(daemon, startHeight, startTimestamp, privateViewKey, eventHandler)
WalletSynchronizer(daemon, startHeight, startTimestamp, privateViewKey, eventHandler) ==
    [NoSynchronizer EXCEPT !.present = TRUE, !.daemon = daemon, !.startHeight = startHeight,
                           !.startTimestamp = startTimestamp, !.privateViewKey = privateViewKey,
                           !.eventHandler = eventHandler]

\* WalletSynchronizer::initializeAfterLoad(daemon, eventHandler)
synchronizerInitializeAfterLoad(sync, daemon, eventHandler) ==
    [sync EXCEPT !.daemon = daemon, !.eventHandler = eventHandler]

\* the async task taking an error for success and success for an error
handshakeResultInverted(connectionError) == IF connectionError THEN SUCCESS ELSE FAILED_TO_INIT_DAEMON

\* init(): what the async task makes of the error the callback delivered
handshakeResult(connectionError) == IF connectionError THEN FAILED_TO_INIT_DAEMON ELSE SUCCESS

\* init() making a new synchronizer whether or not the wallet has one
initSynchronizerAlwaysNew(w) ==
    [w EXCEPT !.walletSynchronizer =
        WalletSynchronizer(w.daemon, getMinInitialSyncStart(w.subWallets)[1],
                           getMinInitialSyncStart(w.subWallets)[2],
                           w.privateViewKey, w.eventHandler)]

\* init(): the synchronizer is made if the wallet has none, and else given
\* the daemon and the event handler
initSynchronizer(w) ==
    IF ~w.walletSynchronizer.present
    THEN [w EXCEPT !.walletSynchronizer =
             WalletSynchronizer(w.daemon, getMinInitialSyncStart(w.subWallets)[1],
                                getMinInitialSyncStart(w.subWallets)[2],
                                w.privateViewKey, w.eventHandler)]
    ELSE [w EXCEPT !.walletSynchronizer =
             synchronizerInitializeAfterLoad(w.walletSynchronizer, w.daemon, w.eventHandler)]

\* init() leaving the synchronizer's m_subWallets as it is
bindSubWalletsSkipped(w) == w

\* init(): m_walletSynchronizer->m_subWallets = m_subWallets
bindSubWallets(w) == [w EXCEPT !.walletSynchronizer.bound = TRUE]

\* init(): m_walletSynchronizer->start()
startSynchronizer(w) == [w EXCEPT !.walletSynchronizer.started = @ + 1]

\* WalletBackend::init: connectionError is what the daemon's callback delivers
init(w, connectionError) ==
    IF w.daemon = 0
    THEN [thrown |-> TRUE, err |-> NONE, w |-> w]
    ELSE [thrown |-> FALSE, err |-> handshakeResult(connectionError),
          w |-> startSynchronizer(bindSubWallets(initSynchronizer(w)))]

\* initializeAfterLoad making no daemon
afterLoadWithoutDaemon(w, filename, password, daemon) ==
    [w EXCEPT !.filename = filename, !.password = password, !.eventHandler = TRUE, !.origin = "real"]

\* WalletBackend::initializeAfterLoad: the wallet as it is when init() is
\* called
afterLoad(w, filename, password, daemon) ==
    [w EXCEPT !.filename = filename, !.password = password, !.daemon = daemon,
              !.eventHandler = TRUE, !.origin = "real"]

\* WalletBackend::initializeAfterLoad
initializeAfterLoad(w, filename, password, daemon, connectionError) ==
    init(afterLoad(w, filename, password, daemon), connectionError)

\* checkNewWalletFilename probing for writing before it looks for the file
checkNewWalletFilenameProbesFirst(filename, files) ==
    IF ~Writable(filename)
    THEN [err |-> INVALID_WALLET_FILENAME, fs |-> files]
    ELSE IF files[filename].exists
    THEN [err |-> WALLET_FILE_ALREADY_EXISTS, fs |-> [files EXCEPT ![filename] = File(<<>>)]]
    ELSE [err |-> SUCCESS, fs |-> [files EXCEPT ![filename] = File(<<>>)]]

\* checkNewWalletFilename with a probe that leaves no file behind
checkNewWalletFilenameWithoutProbeFile(filename, files) ==
    IF files[filename].exists
    THEN [err |-> WALLET_FILE_ALREADY_EXISTS, fs |-> files]
    ELSE IF ~Writable(filename)
    THEN [err |-> INVALID_WALLET_FILENAME, fs |-> files]
    ELSE [err |-> SUCCESS, fs |-> files]

\* checkNewWalletFilename: std::ofstream(filename) creates an empty file
checkNewWalletFilename(filename, files) ==
    IF files[filename].exists
    THEN [err |-> WALLET_FILE_ALREADY_EXISTS, fs |-> files]
    ELSE IF ~Writable(filename)
    THEN [err |-> INVALID_WALLET_FILENAME, fs |-> files]
    ELSE [err |-> SUCCESS, fs |-> [files EXCEPT ![filename] = File(<<>>)]]

\* ------------------------------------------------------------ entry points
\* The steps the four creation entry points share after the filename
\* check: construct the wallet, init(), save(), return.  A wallet whose
\* init() failed is destroyed on return, and its destructor saves it; a
\* returned wallet is moved into the tuple and the local is destroyed empty.
constructInitSave(files, stages, filename, password, privateSpendKey, privateViewKey, isViewWallet, scanHeight, newWallet, daemon, connectionError, salt) ==
    LET wallet == WalletBackend(filename, password, privateSpendKey, privateViewKey, isViewWallet, scanHeight, newWallet, daemon)
        i == init(wallet, connectionError)
        s == save(i.w, files, salt)
    IN  IF i.thrown THEN Thrown(Destructor(i.w, files, salt), stages \o <<"construct", "init">>, DestructorSaves(i.w))
        ELSE IF i.err # SUCCESS
        THEN Outcome(i.err, MoveTarget(DefaultWalletBackend), Destructor(i.w, files, salt), stages \o <<"construct", "init">>, DestructorSaves(i.w))
        ELSE Outcome(s.err, MoveTarget(i.w), Destructor(MoveSource(i.w), s.fs, salt), stages \o <<"construct", "init", "save">>, 1 + DestructorSaves(MoveSource(i.w)))

\* WalletBackend::createWallet: privateSpendKey is the key generate_keys draws
createWallet(files, filename, password, privateSpendKey, daemon, connectionError, salt) ==
    LET chk == checkNewWalletFilename(filename, files)
    IN  IF chk.err # SUCCESS
        THEN Outcome(chk.err, MoveTarget(DefaultWalletBackend), chk.fs, <<"checkFilename">>, 0)
        ELSE constructInitSave(chk.fs, <<"checkFilename", "keys">>, filename, password, privateSpendKey, generateViewFromSpend(privateSpendKey), FALSE, 0, TRUE, daemon, connectionError, salt)

\* Mnemonics::MnemonicToPrivateKey: a seed is the key it encodes, or 0 for a
\* phrase that encodes none
MnemonicToPrivateKey(mnemonicSeed) == [error |-> mnemonicSeed = 0, key |-> mnemonicSeed]

\* WalletBackend::importWalletFromSeed
importWalletFromSeed(files, mnemonicSeed, filename, password, scanHeight, daemon, connectionError, salt) ==
    LET chk == checkNewWalletFilename(filename, files)
        m == MnemonicToPrivateKey(mnemonicSeed)
    IN  IF chk.err # SUCCESS
        THEN Outcome(chk.err, MoveTarget(DefaultWalletBackend), chk.fs, <<"checkFilename">>, 0)
        ELSE IF m.error
        THEN Outcome(INVALID_MNEMONIC, MoveTarget(DefaultWalletBackend), chk.fs, <<"checkFilename", "mnemonic">>, 0)
        ELSE constructInitSave(chk.fs, <<"checkFilename", "mnemonic", "keys">>, filename, password, m.key, generateViewFromSpend(m.key), FALSE, scanHeight, FALSE, daemon, connectionError, salt)

\* WalletBackend::importWalletFromKeys
importWalletFromKeys(files, privateSpendKey, privateViewKey, filename, password, scanHeight, daemon, connectionError, salt) ==
    LET chk == checkNewWalletFilename(filename, files)
    IN  IF chk.err # SUCCESS
        THEN Outcome(chk.err, MoveTarget(DefaultWalletBackend), chk.fs, <<"checkFilename">>, 0)
        ELSE constructInitSave(chk.fs, <<"checkFilename">>, filename, password, privateSpendKey, privateViewKey, FALSE, scanHeight, FALSE, daemon, connectionError, salt)

\* WalletBackend::importViewWallet: the address parameter is not read
importViewWallet(files, privateViewKey, address, filename, password, scanHeight, daemon, connectionError, salt) ==
    LET chk == checkNewWalletFilename(filename, files)
    IN  IF chk.err # SUCCESS
        THEN Outcome(chk.err, MoveTarget(DefaultWalletBackend), chk.fs, <<"checkFilename">>, 0)
        ELSE constructInitSave(chk.fs, <<"checkFilename">>, filename, password, NULL_SECRET_KEY, privateViewKey, TRUE, scanHeight, FALSE, daemon, connectionError, salt)

\* openWallet with the two errors of the password check exchanged
openStagesErrorsSwapped(files, filename, password) ==
    LET fileMagic == hasMagicIdentifier(files[filename].data, IS_A_WALLET_IDENTIFIER, NOT_A_WALLET_FILE, NOT_A_WALLET_FILE)
        salt == Prefix(fileMagic.data, BlockSize)
        dec == Decrypt(Drop(fileMagic.data, BlockSize), DeriveKey(password, salt), salt)
        pw == hasMagicIdentifier(dec.data, IS_CORRECT_PASSWORD_IDENTIFIER, WRONG_PASSWORD, WALLET_FILE_CORRUPTED)
    IN  IF ~files[filename].exists
        THEN [err |-> FILENAME_NON_EXISTENT, thrown |-> FALSE, stages |-> <<"open">>, data |-> <<>>]
        ELSE IF fileMagic.err # SUCCESS
        THEN [err |-> fileMagic.err, thrown |-> FALSE, stages |-> <<"open", "fileMagic">>, data |-> <<>>]
        ELSE IF Len(fileMagic.data) < BlockSize
        THEN [err |-> WALLET_FILE_CORRUPTED, thrown |-> FALSE, stages |-> <<"open", "fileMagic", "salt">>, data |-> <<>>]
        ELSE IF dec.thrown
        THEN [err |-> NONE, thrown |-> TRUE, stages |-> <<"open", "fileMagic", "salt", "deriveKey", "decrypt">>, data |-> <<>>]
        ELSE IF pw.err # SUCCESS
        THEN [err |-> pw.err, thrown |-> FALSE, stages |-> <<"open", "fileMagic", "salt", "deriveKey", "decrypt", "passwordMagic">>, data |-> <<>>]
        ELSE [err |-> SUCCESS, thrown |-> FALSE, stages |-> <<"open", "fileMagic", "salt", "deriveKey", "decrypt", "passwordMagic">>, data |-> pw.data]

\* The stages of openWallet up to the decoded document: the stages run, the
\* error of the first one that failed (or thrown), and the document
openStages(files, filename, password) ==
    LET fileMagic == hasMagicIdentifier(files[filename].data, IS_A_WALLET_IDENTIFIER, NOT_A_WALLET_FILE, NOT_A_WALLET_FILE)
        salt == Prefix(fileMagic.data, BlockSize)
        dec == Decrypt(Drop(fileMagic.data, BlockSize), DeriveKey(password, salt), salt)
        pw == hasMagicIdentifier(dec.data, IS_CORRECT_PASSWORD_IDENTIFIER, WALLET_FILE_CORRUPTED, WRONG_PASSWORD)
    IN  IF ~files[filename].exists
        THEN [err |-> FILENAME_NON_EXISTENT, thrown |-> FALSE, stages |-> <<"open">>, data |-> <<>>]
        ELSE IF fileMagic.err # SUCCESS
        THEN [err |-> fileMagic.err, thrown |-> FALSE, stages |-> <<"open", "fileMagic">>, data |-> <<>>]
        ELSE IF Len(fileMagic.data) < BlockSize
        THEN [err |-> WALLET_FILE_CORRUPTED, thrown |-> FALSE, stages |-> <<"open", "fileMagic", "salt">>, data |-> <<>>]
        ELSE IF dec.thrown
        THEN [err |-> NONE, thrown |-> TRUE, stages |-> <<"open", "fileMagic", "salt", "deriveKey", "decrypt">>, data |-> <<>>]
        ELSE IF pw.err # SUCCESS
        THEN [err |-> pw.err, thrown |-> FALSE, stages |-> <<"open", "fileMagic", "salt", "deriveKey", "decrypt", "passwordMagic">>, data |-> <<>>]
        ELSE [err |-> SUCCESS, thrown |-> FALSE, stages |-> <<"open", "fileMagic", "salt", "deriveKey", "decrypt", "passwordMagic">>, data |-> pw.data]

\* openWallet returning, when a stage fails, an object it has given the
\* filename, the password and a daemon
openWalletReturnsAttachedObject(files, filename, password, daemon, connectionError) ==
    LET st == openStages(files, filename, password)
        i == initializeAfterLoad(FromJson(st.data), filename, password, daemon, connectionError)
    IN  IF st.thrown THEN Thrown(files, st.stages, 0)
        ELSE IF st.err # SUCCESS
        THEN Outcome(st.err, MoveTarget(afterLoad(DefaultWalletBackend, filename, password, daemon)), files, st.stages, 0)
        ELSE IF ~JsonValid(st.data) THEN Thrown(files, st.stages \o <<"jsonParse">>, 0)
        ELSE Outcome(i.err, MoveTarget(i.w), files, st.stages \o <<"jsonParse", "daemon", "init">>, 0)

\* WalletBackend::openWallet
openWallet(files, filename, password, daemon, connectionError) ==
    LET st == openStages(files, filename, password)
        i == initializeAfterLoad(FromJson(st.data), filename, password, daemon, connectionError)
    IN  IF st.thrown THEN Thrown(files, st.stages, 0)
        ELSE IF st.err # SUCCESS
        THEN Outcome(st.err, MoveTarget(DefaultWalletBackend), files, st.stages, 0)
        ELSE IF ~JsonValid(st.data) THEN Thrown(files, st.stages \o <<"jsonParse">>, 0)
        ELSE Outcome(i.err, MoveTarget(i.w), files, st.stages \o <<"jsonParse", "daemon", "init">>, 0)

\* ---------------------------------------------------------- balance queries
\* validateOurAddresses({address}, subWallets): the address is well formed
\* and its spend key is one of the container's
validateOurAddresses(address, subWallets) ==
    IF Len(address) # 2 THEN ADDRESS_NOT_VALID
    ELSE IF ~\E i \in 1 .. Len(subWallets.accounts) : subWallets.accounts[i].publicSpendKey = address[1]
    THEN ADDRESS_NOT_IN_WALLET
    ELSE SUCCESS

\* addressesToSpendKeys({address})
addressesToSpendKeys(address) == {address[1]}

\* SubWallets::getBalance(subWalletsToTakeFrom, takeFromAll)
RECURSIVE SumBalances(_, _, _)
SumBalances(accounts, keys, takeFromAll) ==
    IF accounts = <<>> THEN 0
    ELSE (IF takeFromAll \/ Head(accounts).publicSpendKey \in keys THEN Head(accounts).balance ELSE 0)
         + SumBalances(Tail(accounts), keys, takeFromAll)
SubWalletsGetBalance(subWallets, keys, takeFromAll) == SumBalances(subWallets.accounts, keys, takeFromAll)

\* getBalance asking the SubWallets for every sub-account
getBalanceOfAll(w, address) ==
    LET error == validateOurAddresses(address, w.subWallets)
    IN  IF error # SUCCESS THEN [err |-> error, amount |-> 0]
        ELSE [err |-> SUCCESS, amount |-> SubWalletsGetBalance(w.subWallets, addressesToSpendKeys(address), TRUE)]

\* WalletBackend::getBalance
getBalance(w, address) ==
    LET error == validateOurAddresses(address, w.subWallets)
    IN  IF error # SUCCESS THEN [err |-> error, amount |-> 0]
        ELSE [err |-> SUCCESS, amount |-> SubWalletsGetBalance(w.subWallets, addressesToSpendKeys(address), FALSE)]

\* WalletBackend::getTotalBalance
getTotalBalance(w) == SubWalletsGetBalance(w.subWallets, {}, TRUE)

\* ------------------------------------------------------------------ actions
EntrySlots == {"a"}
Seeds == {0} \cup SpendKeys
Addresses == {<<0>>} \cup {<<a, 2>> : a \in Byte}

\* The caller receives the returned tuple: the wallet is its new object
Finish(s, op, filename, password, address, r) ==
    /\ UNCHANGED <<magic, run>>
    /\ fs' = r.fs
    /\ obj' = IF r.thrown THEN obj ELSE [obj EXCEPT ![s] = Live(r.wallet)]
    /\ ret' = [NoCall EXCEPT !.op = op, !.slot = s, !.filename = filename, !.password = password, !.address = address,
                             !.err = r.err, !.thrown = r.thrown, !.stages = r.stages, !.saves = r.saves]

CreateWallet ==
    \E s \in EntrySlots, f \in Paths, pw \in Passwords, k \in SpendKeys, ce \in BOOLEAN, salt \in Salts :
        /\ ~obj[s].alive
        /\ Finish(s, "createWallet", f, pw, <<>>, createWallet(fs, f, pw, k, NewDaemon, ce, salt))

ImportWalletFromSeed ==
    \E s \in EntrySlots, f \in Paths, pw \in Passwords, m \in Seeds, h \in Heights, ce \in BOOLEAN, salt \in Salts :
        /\ ~obj[s].alive
        /\ Finish(s, "importWalletFromSeed", f, pw, <<>>, importWalletFromSeed(fs, m, f, pw, h, NewDaemon, ce, salt))

ImportWalletFromKeys ==
    \E s \in EntrySlots, f \in Paths, pw \in Passwords, k \in SpendKeys, v \in ViewKeys, h \in Heights, ce \in BOOLEAN, salt \in Salts :
        /\ ~obj[s].alive
        /\ Finish(s, "importWalletFromKeys", f, pw, <<>>, importWalletFromKeys(fs, k, v, f, pw, h, NewDaemon, ce, salt))

ImportViewWallet ==
    \E s \in EntrySlots, f \in Paths, pw \in Passwords, k \in SpendKeys, v \in ViewKeys, h \in Heights, ce \in BOOLEAN, salt \in Salts :
        /\ ~obj[s].alive
        /\ Finish(s, "importViewWallet", f, pw, addressFromPrivateKeys(k, v), importViewWallet(fs, v, addressFromPrivateKeys(k, v), f, pw, h, NewDaemon, ce, salt))

OpenWallet ==
    \E s \in EntrySlots, f \in Paths, pw \in Passwords, ce \in BOOLEAN :
        /\ ~obj[s].alive
        /\ Finish(s, "openWallet", f, pw, <<>>, openWallet(fs, f, pw, NewDaemon, ce))

\* wallet.save(), called by the owner of an initialized wallet
Save ==
    \E s \in Slots, salt \in Salts :
        /\ obj[s].alive /\ obj[s].w.subWallets.present
        /\ fs' = save(obj[s].w, fs, salt).fs
        /\ ret' = [NoCall EXCEPT !.op = "save", !.slot = s, !.filename = obj[s].w.filename, !.err = save(obj[s].w, fs, salt).err, !.saves = 1]
        /\ UNCHANGED <<obj, magic, run>>

\* The object goes out of scope: ~WalletBackend
Destroy ==
    \E s \in Slots, salt \in Salts :
        /\ obj[s].alive
        /\ fs' = Destructor(obj[s].w, fs, salt)
        /\ obj' = [obj EXCEPT ![s] = Dead]
        /\ ret' = [NoCall EXCEPT !.op = "destroy", !.slot = s, !.filename = obj[s].w.filename, !.saves = DestructorSaves(obj[s].w)]
        /\ UNCHANGED <<magic, run>>

\* WalletBackend b;
DefaultConstruct ==
    \E s \in Slots \ EntrySlots :
        /\ ~obj[s].alive
        /\ obj' = [obj EXCEPT ![s] = Live(DefaultWalletBackend)]
        /\ ret' = [NoCall EXCEPT !.op = "construct", !.slot = s]
        /\ UNCHANGED <<fs, magic, run>>

\* WalletBackend b(std::move(a)): the move constructor calls the assignment
MoveConstruct ==
    \E dst \in Slots, src \in Slots :
        /\ dst # src /\ ~obj[dst].alive /\ obj[src].alive
        /\ obj' = [obj EXCEPT ![dst] = Live(MoveTarget(obj[src].w)), ![src] = Live(MoveSource(obj[src].w))]
        /\ ret' = [NoCall EXCEPT !.op = "moveConstruct", !.slot = dst, !.src = src]
        /\ UNCHANGED <<fs, magic, run>>

\* b = std::move(a)
MoveAssign ==
    \E dst \in Slots, src \in Slots :
        /\ dst # src /\ obj[dst].alive /\ obj[src].alive
        /\ obj' = [obj EXCEPT ![dst] = Live(MoveTarget(obj[src].w)), ![src] = Live(MoveSource(obj[src].w))]
        /\ ret' = [NoCall EXCEPT !.op = "moveAssign", !.slot = dst, !.src = src]
        /\ UNCHANGED <<fs, magic, run>>

GetBalance ==
    \E s \in Slots, address \in Addresses :
        /\ obj[s].alive /\ obj[s].w.subWallets.present
        /\ ret' = [NoCall EXCEPT !.op = "getBalance", !.slot = s, !.address = address,
                                 !.err = getBalance(obj[s].w, address).err, !.amount = getBalance(obj[s].w, address).amount]
        /\ UNCHANGED <<fs, obj, magic, run>>

GetTotalBalance ==
    \E s \in Slots :
        /\ obj[s].alive /\ obj[s].w.subWallets.present
        /\ ret' = [NoCall EXCEPT !.op = "getTotalBalance", !.slot = s, !.err = SUCCESS, !.amount = getTotalBalance(obj[s].w)]
        /\ UNCHANGED <<fs, obj, magic, run>>

\* The started synchronizer processes the next block, finds in it an output
\* of one of the sub-accounts and writes it into the SubWallets it is bound to
SyncWrite ==
    \E s \in Slots :
        /\ obj[s].alive /\ obj[s].w.subWallets.present
        /\ obj[s].w.walletSynchronizer.started > 0 /\ obj[s].w.walletSynchronizer.bound
        /\ \E i \in 1 .. Len(obj[s].w.subWallets.accounts) :
              /\ obj[s].w.subWallets.accounts[i].balance < MaxBalance
              /\ obj' = [obj EXCEPT ![s].w.subWallets.accounts[i].balance = @ + 1,
                                    ![s].w.walletSynchronizer.progress = @ + 1]
        /\ UNCHANGED <<fs, ret, magic, run>>

NoMagic == [data |-> <<>>, identifier |-> <<>>, err |-> NONE, out |-> <<>>, run |-> FALSE]

\* No call under way.  Of a call of init(): where it stands (pc), the entry
\* point that made it, whether the daemon will ever answer, the error the
\* callback delivered ("none" before it ran), the result the wait produced,
\* and for the destructor the wallet as save() serialized it.
NoRun == [pc |-> "none", caller |-> "", responds |-> FALSE, callback |-> "none", result |-> NONE, saved |-> DefaultWalletBackend]

Init == fs = [p \in Paths |-> NoFile] /\ obj = [s \in Slots |-> Dead] /\ ret = NoCall /\ magic = NoMagic /\ run = NoRun

Next ==
    \/ CreateWallet
    \/ ImportWalletFromSeed
    \/ ImportWalletFromKeys
    \/ ImportViewWallet
    \/ OpenWallet
    \/ Save
    \/ Destroy
    \/ DefaultConstruct
    \/ MoveConstruct
    \/ MoveAssign
    \/ GetBalance
    \/ GetTotalBalance
    \/ SyncWrite

Spec == Init /\ [][Next]_vars

\* ------------------------------------------------- opening any file at all
\* The sequences of at most n bytes
RECURSIVE SeqsUpTo(_, _)
SeqsUpTo(S, n) == IF n = 0 THEN {<<>>} ELSE LET T == SeqsUpTo(S, n - 1) IN T \cup {Append(t, x) : t \in T, x \in S}

\* The wallet createWallet returns for a spend key and a password
FreshWallet(privateSpendKey, password) == init(WalletBackend("w", password, privateSpendKey, generateViewFromSpend(privateSpendKey), FALSE, 0, TRUE, 1), FALSE).w

\* The files found at "w": a container as save() writes it, cut short at
\* any length, or with any one byte changed, or with a byte added
SavedContainers == {Container(FreshWallet(1, pw), salt) : pw \in Passwords, salt \in Salts}
FoundFiles ==
    UNION {{Prefix(c, n) : n \in 0 .. Len(c)}
           \cup {[c EXCEPT ![i] = b] : i \in 1 .. Len(c), b \in Byte}
           \cup {Append(c, b) : b \in Byte} : c \in SavedContainers}

InitOpen ==
    /\ \E bytes \in FoundFiles : fs = [p \in Paths |-> IF p = "w" THEN File(bytes) ELSE NoFile]
    /\ obj = [s \in Slots |-> Dead] /\ ret = NoCall /\ magic = NoMagic /\ run = NoRun

NextOpen ==
    \/ OpenWallet
    \/ Destroy

SpecOpen == InitOpen /\ [][NextOpen]_vars

\* --------------------------------------- hasMagicIdentifier on any buffer
MagicBytes == 0 .. 2

InitMagic ==
    /\ fs = [p \in Paths |-> NoFile] /\ obj = [s \in Slots |-> Dead] /\ ret = NoCall /\ run = NoRun
    /\ \E data \in SeqsUpTo(MagicBytes, MaxBuffer), identifier \in SeqsUpTo(MagicBytes, MaxBuffer - 2) :
          magic = [NoMagic EXCEPT !.data = data, !.identifier = identifier]

\* One call, with the errors openWallet passes for the decrypted data
CheckMagic ==
    /\ ~magic.run
    /\ LET r == hasMagicIdentifier(magic.data, magic.identifier, WALLET_FILE_CORRUPTED, WRONG_PASSWORD)
       IN  magic' = [magic EXCEPT !.err = r.err, !.out = r.data, !.run = TRUE]
    /\ UNCHANGED <<fs, obj, ret, run>>

NextMagic == CheckMagic

SpecMagic == InitMagic /\ [][NextMagic]_vars

\* ------------------------------------------ balances of several sub-accounts
AccountKeys == 1 .. (MaxAccounts + 1)
Account(k, balance) == [privateSpendKey |-> k, publicSpendKey |-> secret_key_to_public_key(k), address |-> addressFromPrivateKeys(k, 1), scanHeight |-> 0, balance |-> balance, syncStartTimestamp |-> 1]
AccountSeqs == {a \in SeqsUpTo({Account(k, 0) : k \in AccountKeys}, MaxAccounts) : a # <<>> /\ \A i, j \in 1 .. Len(a) : i # j => a[i].publicSpendKey # a[j].publicSpendKey}

\* A wallet that holds several sub-accounts, its synchronizer started
InitBalance ==
    /\ fs = [p \in Paths |-> NoFile] /\ ret = NoCall /\ magic = NoMagic /\ run = NoRun
    /\ \E accounts \in AccountSeqs :
          obj = [s \in Slots |-> IF s = "a"
                                 THEN Live([FreshWallet(1, 1) EXCEPT !.subWallets.accounts = accounts])
                                 ELSE Dead]

NextBalance ==
    \/ GetBalance
    \/ GetTotalBalance
    \/ SyncWrite

SpecBalance == InitBalance /\ [][NextBalance]_vars

\* ------------------------------------------- wallets of files found on disk
\* The wallet createWallet returned, after its synchronizer processed some
\* blocks
SyncedWallet(privateSpendKey, password, blocks) ==
    [FreshWallet(privateSpendKey, password) EXCEPT !.subWallets.accounts[1].balance = blocks,
                                                     !.walletSynchronizer.progress = blocks]

ZeroSalt == [i \in 1 .. BlockSize |-> 0]

\* A saved wallet file is found at "w", and the same at "bad", where it can
\* be read and not written
InitSave ==
    /\ obj = [s \in Slots |-> Dead] /\ ret = NoCall /\ magic = NoMagic /\ run = NoRun
    /\ \E k \in SpendKeys, pw \in Passwords, n \in 0 .. MaxBalance :
          fs = [p \in Paths |-> save(SyncedWallet(k, pw, n), [q \in Paths |-> NoFile], ZeroSalt).fs["w"]]

NextSave ==
    \/ OpenWallet
    \/ Save
    \/ SyncWrite
    \/ Destroy

SpecSave == InitSave /\ [][NextSave]_vars

\* ------------------------------- init() and the destructor, step by step
\* The wallets init() is called on, and the file at "w" at that time: the
\* wallet each creation entry point constructs (the file is the empty one
\* the filename check left), the wallet openWallet loads from a saved file,
\* and a default-constructed object whose owner calls init() itself.
InitCallers ==
    {[caller |-> "createWallet", file |-> File(<<>>),
      w |-> WalletBackend("w", pw, k, generateViewFromSpend(k), FALSE, 0, TRUE, 1)] : pw \in Passwords, k \in SpendKeys}
    \cup {[caller |-> "importWalletFromSeed", file |-> File(<<>>),
           w |-> WalletBackend("w", pw, MnemonicToPrivateKey(m).key, generateViewFromSpend(MnemonicToPrivateKey(m).key), FALSE, h, FALSE, 1)] : pw \in Passwords, m \in Seeds \ {0}, h \in Heights}
    \cup {[caller |-> "importWalletFromKeys", file |-> File(<<>>),
           w |-> WalletBackend("w", pw, k, v, FALSE, h, FALSE, 1)] : pw \in Passwords, k \in SpendKeys, v \in ViewKeys, h \in Heights}
    \cup {[caller |-> "importViewWallet", file |-> File(<<>>),
           w |-> WalletBackend("w", pw, NULL_SECRET_KEY, v, TRUE, h, FALSE, 1)] : pw \in Passwords, v \in ViewKeys, h \in Heights}
    \cup {[caller |-> "openWallet", file |-> save(SyncedWallet(k, pw, n), [p \in Paths |-> NoFile], ZeroSalt).fs["w"],
           w |-> afterLoad(FromJson(ToJson(SyncedWallet(k, pw, n))), "w", pw, 1)] : pw \in Passwords, k \in SpendKeys, n \in 0 .. MaxBalance}
    \cup {[caller |-> "init", file |-> NoFile, w |-> DefaultWalletBackend]}

InitThreads ==
    /\ ret = NoCall /\ magic = NoMagic
    /\ \E c \in InitCallers, responds \in BOOLEAN :
          /\ fs = [p \in Paths |-> IF p = "w" THEN c.file ELSE NoFile]
          /\ obj = [s \in Slots |-> IF s \in EntrySlots THEN Live(c.w) ELSE Dead]
          /\ run = [NoRun EXCEPT !.pc = "call", !.caller = c.caller, !.responds = responds]

\* init(): without a daemon it throws; else m_daemon->init(callback) hands
\* the callback to the daemon and init() goes on to wait
InitCheck ==
    \E s \in EntrySlots :
        /\ run.pc = "call" /\ obj[s].alive
        /\ IF obj[s].w.daemon = 0
           THEN /\ run' = [run EXCEPT !.pc = "thrown"]
                /\ ret' = [NoCall EXCEPT !.op = "init", !.slot = s, !.thrown = TRUE]
           ELSE /\ run' = [run EXCEPT !.pc = "wait"]
                /\ ret' = ret
        /\ UNCHANGED <<fs, obj, magic>>

\* The daemon calls the callback, with an error or with none:
\* errorPromise.set_value(e)
DaemonCallback ==
    /\ run.pc = "wait" /\ run.responds /\ run.callback = "none"
    /\ \E e \in {"ok", "error"} : run' = [run EXCEPT !.callback = e]
    /\ UNCHANGED <<fs, obj, ret, magic>>

\* init() going on without the callback having run
InitWaitDoesNotBlock ==
    /\ run.pc = "wait"
    /\ run' = [run EXCEPT !.pc = "synchronizer", !.result = handshakeResult(run.callback = "error")]
    /\ UNCHANGED <<fs, obj, ret, magic>>

\* init(): initDaemon.get() returns once the promise holds a value
InitWait ==
    /\ run.pc = "wait" /\ run.callback # "none"
    /\ run' = [run EXCEPT !.pc = "synchronizer", !.result = handshakeResult(run.callback = "error")]
    /\ UNCHANGED <<fs, obj, ret, magic>>

\* init(): the synchronizer is made or reattached
InitSynchronizer ==
    \E s \in EntrySlots :
        /\ run.pc = "synchronizer"
        /\ obj' = [obj EXCEPT ![s].w = initSynchronizer(@)]
        /\ run' = [run EXCEPT !.pc = "bind"]
        /\ UNCHANGED <<fs, ret, magic>>

\* init(): m_walletSynchronizer->m_subWallets = m_subWallets
InitBind ==
    \E s \in EntrySlots :
        /\ run.pc = "bind"
        /\ obj' = [obj EXCEPT ![s].w = bindSubWallets(@)]
        /\ run' = [run EXCEPT !.pc = "start"]
        /\ UNCHANGED <<fs, ret, magic>>

\* init(): m_walletSynchronizer->start()
InitStart ==
    \E s \in EntrySlots :
        /\ run.pc = "start"
        /\ obj' = [obj EXCEPT ![s].w = startSynchronizer(@)]
        /\ run' = [run EXCEPT !.pc = "return"]
        /\ UNCHANGED <<fs, ret, magic>>

\* init(): return result
InitReturn ==
    \E s \in EntrySlots :
        /\ run.pc = "return"
        /\ run' = [run EXCEPT !.pc = "done"]
        /\ ret' = [NoCall EXCEPT !.op = "init", !.slot = s, !.err = run.result]
        /\ UNCHANGED <<fs, obj, magic>>

\* ~WalletBackend, of a wallet init() returned from: with a daemon, save()
\* is entered and serializes the wallet; without one the body does nothing
DestructorEnter ==
    \E s \in EntrySlots :
        /\ run.pc = "done" /\ obj[s].alive
        /\ run' = IF obj[s].w.daemon # 0
                  THEN [run EXCEPT !.pc = "saving", !.saved = obj[s].w]
                  ELSE [run EXCEPT !.pc = "members"]
        /\ UNCHANGED <<fs, obj, ret, magic>>

\* ~WalletBackend: save() encrypts what it serialized and writes the file
DestructorWrite ==
    \E salt \in Salts :
        /\ run.pc = "saving"
        /\ fs' = save(run.saved, fs, salt).fs
        /\ run' = [run EXCEPT !.pc = "members"]
        /\ UNCHANGED <<obj, ret, magic>>

\* ~WalletBackend: after the body the members are destroyed, the
\* synchronizer and its thread with them
DestructorMembers ==
    \E s \in EntrySlots :
        /\ run.pc = "members"
        /\ obj' = [obj EXCEPT ![s] = Dead]
        /\ run' = [run EXCEPT !.pc = "destroyed"]
        /\ ret' = [NoCall EXCEPT !.op = "destroy", !.slot = s, !.filename = obj[s].w.filename, !.saves = DestructorSaves(obj[s].w)]
        /\ UNCHANGED <<fs, magic>>

NextThreads ==
    \/ InitCheck
    \/ DaemonCallback
    \/ InitWait
    \/ InitSynchronizer
    \/ InitBind
    \/ InitStart
    \/ InitReturn
    \/ SyncWrite
    \/ DestructorEnter
    \/ DestructorWrite
    \/ DestructorMembers

SpecThreads == InitThreads /\ [][NextThreads]_vars

\* The thread that called init() goes on while it can, and a daemon that
\* answers does answer
SpecThreadsLive ==
    /\ InitThreads /\ [][NextThreads]_vars
    /\ WF_vars(InitCheck) /\ WF_vars(DaemonCallback) /\ WF_vars(InitWait)
    /\ WF_vars(InitSynchronizer) /\ WF_vars(InitBind) /\ WF_vars(InitStart) /\ WF_vars(InitReturn)

\* ================================================================== claims
CreationOps == {"createWallet", "importWalletFromSeed", "importWalletFromKeys", "importViewWallet"}
EntryOps == CreationOps \cup {"openWallet"}
IsPlaceholder(w) == w.daemon = 0 /\ ~w.subWallets.present /\ ~w.walletSynchronizer.present

\* C1: openWallet with a password other than the one the file was saved
\* under returns WRONG_PASSWORD or WALLET_FILE_CORRUPTED: it returns, and
\* with no other error.
C1_WrongPasswordRejected ==
    (ret.op = "openWallet" /\ fs[ret.filename].password \notin {0, ret.password})
        => (~ret.thrown /\ ret.err \in {WRONG_PASSWORD, WALLET_FILE_CORRUPTED})

\* C2: a file that save() wrote, however many saves went to the path before,
\* opens under its password past both magic checks to exactly the document
\* of the last save; the wallet openWallet returns from it has the keys, the
\* flag and the address of that document.
C2_RoundTrip ==
    /\ \A p \in Paths : fs[p].password # 0 =>
          LET st == openStages(fs, p, fs[p].password)
          IN  ~st.thrown /\ st.err = SUCCESS /\ st.data = fs[p].json
    /\ (ret.op = "openWallet" /\ fs[ret.filename].password = ret.password) =>
          /\ ~ret.thrown /\ ret.err \in {SUCCESS, FAILED_TO_INIT_DAEMON}
          /\ obj[ret.slot].alive
          /\ LET w == obj[ret.slot].w
                 doc == fs[ret.filename].json
                 a == w.subWallets.accounts
             IN  /\ w.privateViewKey = doc[1]
                 /\ w.isViewWallet = (doc[2] = 1)
                 /\ Len(a) * AccountBytes = Len(doc) - HeaderBytes
                 /\ \A i \in 1 .. Len(a) :
                       /\ a[i].privateSpendKey = doc[HeaderBytes + (i - 1) * AccountBytes + 1]
                       /\ a[i].address = <<doc[HeaderBytes + (i - 1) * AccountBytes + 3], doc[HeaderBytes + (i - 1) * AccountBytes + 4]>>

\* C2 witness: a wallet reopened from a file that was saved more than once
\* (its document holds a balance the synchronizer wrote after the first save)
C2_Witness ==
    /\ ret.op = "openWallet" /\ ret.err = SUCCESS
    /\ fs[ret.filename].password = ret.password
    /\ fs[ret.filename].json[HeaderBytes + 6] = 1

\* C3: openWallet runs its stages in a fixed order and leaves at the first
\* one that fails, with that stage's error: no file, FILENAME_NON_EXISTENT;
\* a file without the file-type identifier, NOT_A_WALLET_FILE; fewer bytes
\* than a salt after it, WALLET_FILE_CORRUPTED; a decrypted text shorter than
\* the password identifier, WALLET_FILE_CORRUPTED; one that does not start
\* with it, WRONG_PASSWORD.  The stages run end with the one that failed,
\* and a failed open returns a wallet with no daemon and no synchronizer.
C3_OpenStagesInOrder ==
    ret.op = "openWallet" =>
        LET f == fs[ret.filename]
            n == Len(IS_A_WALLET_IDENTIFIER)
            m == Len(IS_CORRECT_PASSWORD_IDENTIFIER)
            rest == SubSeq(f.data, n + 1, Len(f.data))
            salt == SubSeq(rest, 1, BlockSize)
            dec == Decrypt(SubSeq(rest, BlockSize + 1, Len(rest)), DeriveKey(ret.password, salt), salt)
            failed == ret.thrown \/ ret.err \in {FILENAME_NON_EXISTENT, NOT_A_WALLET_FILE, WALLET_FILE_CORRUPTED, WRONG_PASSWORD}
        IN  /\ IF ~f.exists
               THEN ~ret.thrown /\ ret.err = FILENAME_NON_EXISTENT /\ ret.stages = <<"open">>
               ELSE IF Len(f.data) < n \/ SubSeq(f.data, 1, n) # IS_A_WALLET_IDENTIFIER
               THEN ~ret.thrown /\ ret.err = NOT_A_WALLET_FILE /\ ret.stages = <<"open", "fileMagic">>
               ELSE IF Len(rest) < BlockSize
               THEN ~ret.thrown /\ ret.err = WALLET_FILE_CORRUPTED /\ ret.stages = <<"open", "fileMagic", "salt">>
               ELSE IF dec.thrown
               THEN ret.thrown /\ ret.stages = <<"open", "fileMagic", "salt", "deriveKey", "decrypt">>
               ELSE IF Len(dec.data) < m
               THEN ~ret.thrown /\ ret.err = WALLET_FILE_CORRUPTED /\ ret.stages = <<"open", "fileMagic", "salt", "deriveKey", "decrypt", "passwordMagic">>
               ELSE IF SubSeq(dec.data, 1, m) # IS_CORRECT_PASSWORD_IDENTIFIER
               THEN ~ret.thrown /\ ret.err = WRONG_PASSWORD /\ ret.stages = <<"open", "fileMagic", "salt", "deriveKey", "decrypt", "passwordMagic">>
               ELSE ret.thrown \/ ret.err \in {SUCCESS, FAILED_TO_INIT_DAEMON}
            /\ failed => \A i \in 1 .. Len(ret.stages) : ret.stages[i] \notin {"daemon", "init"}
            /\ (failed /\ ~ret.thrown) => (obj[ret.slot].alive /\ IsPlaceholder(obj[ret.slot].w))

\* C3 witness: a file whose decrypted text is shorter than the password
\* identifier was refused at the password check
C3_Witness ==
    /\ ret.op = "openWallet" /\ ret.err = WALLET_FILE_CORRUPTED
    /\ ret.stages = <<"open", "fileMagic", "salt", "deriveKey", "decrypt", "passwordMagic">>

\* C4: hasMagicIdentifier on a buffer shorter than the identifier returns
\* the too-small error; on a buffer that differs from the identifier in one
\* of its first N bytes, the wrong-identifier error; on a buffer that starts
\* with the identifier, SUCCESS, and the buffer is left as its former
\* content without those N bytes.
C4_MagicCheck ==
    magic.run =>
        LET n == Len(magic.identifier)
        IN  IF Len(magic.data) < n
            THEN magic.err = WALLET_FILE_CORRUPTED
            ELSE IF \E i \in 1 .. n : magic.data[i] # magic.identifier[i]
            THEN magic.err = WRONG_PASSWORD
            ELSE magic.err = SUCCESS /\ magic.identifier \o magic.out = magic.data

\* C4 witness: an identifier of two bytes was found and removed, and bytes
\* were left
C4_Witness == magic.run /\ magic.err = SUCCESS /\ Len(magic.identifier) = 2 /\ Len(magic.out) = 2

\* C5: a creation entry point called with a path where a file exists
\* returns WALLET_FILE_ALREADY_EXISTS after the filename check alone, with
\* the files as they were, and the wallet it returns has no daemon and no
\* synchronizer and leaves the files as they are when it is destroyed.
C5_FilenameGuard ==
    [][(/\ ret'.op \in CreationOps
        /\ ~obj[ret'.slot].alive /\ obj'[ret'.slot].alive
        /\ fs[ret'.filename].exists)
       => (/\ ret'.err = WALLET_FILE_ALREADY_EXISTS
           /\ ret'.stages = <<"checkFilename">>
           /\ ret'.saves = 0
           /\ fs' = fs
           /\ IsPlaceholder(obj'[ret'.slot].w)
           /\ \A salt \in Salts : Destructor(obj'[ret'.slot].w, fs', salt) = fs)]_vars

\* C5 witness: a creation call was refused on the path of a saved wallet
C5_Witness ==
    /\ ret.op \in CreationOps /\ ret.err = WALLET_FILE_ALREADY_EXISTS
    /\ fs[ret.filename].json # <<>>

\* C6: an entry point that returns an error other than SUCCESS returns a
\* default placeholder with it: no daemon, no subWallets, no synchronizer.
C6_FailureReturnsPlaceholder ==
    (ret.op \in EntryOps /\ ~ret.thrown /\ ret.err # SUCCESS)
        => (obj[ret.slot].alive /\ IsPlaceholder(obj[ret.slot].w))

\* C7: every public operation ends by returning a value; only init() called
\* with no daemon handle raises.
C7_OnlyInitRaises == ret.thrown => ret.op = "init"

\* C8 as stated: an object holds a daemon handle exactly when it completed a
\* real (non-default) construction path.
C8_DaemonIffRealConstruction ==
    \A s \in Slots : obj[s].alive => ((obj[s].w.daemon # 0) <=> (obj[s].w.origin = "real"))

\* C8 as amended: an object holds a daemon handle exactly when what it holds
\* came from a real construction path and it has not been moved from since;
\* the destructor makes one save() call exactly when the daemon handle is
\* present, and otherwise leaves every file as it is, so a placeholder writes
\* nothing when destroyed.
C8_DestructorSaves ==
    /\ [](\A s \in Slots : obj[s].alive =>
            ((obj[s].w.daemon # 0) <=> (obj[s].w.origin = "real" /\ ~obj[s].w.movedFrom)))
    /\ [][(ret'.op = "destroy" /\ obj[ret'.slot].alive /\ ~obj'[ret'.slot].alive)
          => (/\ ret'.saves = (IF obj[ret'.slot].w.daemon # 0 THEN 1 ELSE 0)
              /\ (obj[ret'.slot].w.daemon = 0 => fs' = fs)
              /\ (obj[ret'.slot].w.origin = "default" => fs' = fs)
              /\ (obj[ret'.slot].w.daemon # 0 /\ Writable(obj[ret'.slot].w.filename))
                    => (fs'[obj[ret'.slot].w.filename].json = ToJson(obj[ret'.slot].w)))]_vars

\* C8 witness: the source of a move was destroyed and saved nothing, while
\* the wallet it gave away lives on with the daemon handle
C8_Witness ==
    /\ ret.op = "destroy" /\ ret.saves = 0 /\ ret.filename = "w"
    /\ \E s \in Slots : obj[s].alive /\ obj[s].w.daemon # 0

\* C9: getBalance with an address that fails validation returns an error and
\* 0; with the address of a sub-account it returns SUCCESS and that
\* sub-account's balance alone; getTotalBalance returns the sum over all the
\* sub-accounts, which is the sum of getBalance over their addresses.
C9_BalanceFiltering ==
    \A s \in Slots : (obj[s].alive /\ obj[s].w.subWallets.present) =>
        LET w == obj[s].w
            a == w.subWallets.accounts
        IN  /\ \A address \in Addresses :
                  /\ (Len(address) # 2 \/ \A i \in 1 .. Len(a) : a[i].publicSpendKey # address[1])
                        => (getBalance(w, address).err # SUCCESS /\ getBalance(w, address).amount = 0)
                  /\ \A i \in 1 .. Len(a) : (Len(address) = 2 /\ a[i].publicSpendKey = address[1])
                        => (getBalance(w, address).err = SUCCESS /\ getBalance(w, address).amount = a[i].balance)
            /\ getTotalBalance(w) = SumSeq([i \in 1 .. Len(a) |-> a[i].balance])
            /\ getTotalBalance(w) = SumSeq([i \in 1 .. Len(a) |-> getBalance(w, a[i].address).amount])

\* C9 witness: the balance of one of two funded sub-accounts was asked for
C9_Witness ==
    /\ ret.op = "getBalance" /\ ret.err = SUCCESS /\ ret.amount = 1
    /\ Len(obj[ret.slot].w.subWallets.accounts) = 2
    /\ \A i \in 1 .. 2 : obj[ret.slot].w.subWallets.accounts[i].balance = 1
    /\ getTotalBalance(obj[ret.slot].w) = 2

\* C10: a view wallet holds the all-zero sentinel as its only private spend
\* key, and nothing uses the sentinel as a spend key: the address of its
\* sub-account is not the one derived from the sentinel.
C10_ViewWalletInvariant ==
    /\ (ret.op = "importViewWallet" /\ ret.err = SUCCESS) => obj[ret.slot].w.isViewWallet
    /\ \A s \in Slots : (obj[s].alive /\ obj[s].w.isViewWallet /\ obj[s].w.subWallets.present) =>
          \A i \in 1 .. Len(obj[s].w.subWallets.accounts) :
              /\ obj[s].w.subWallets.accounts[i].privateSpendKey = NULL_SECRET_KEY
              /\ obj[s].w.subWallets.accounts[i].address[1] # secret_key_to_public_key(NULL_SECRET_KEY)

\* C11: save() returns INVALID_WALLET_FILENAME exactly when the wallet's path
\* cannot be opened for writing, and SUCCESS otherwise; it leaves every
\* object as it was; when it returns INVALID_WALLET_FILENAME every file is
\* as it was, and when it returns SUCCESS the file holds the wallet.
C11_SaveResult ==
    [][(ret'.op = "save" /\ (ret' # ret \/ fs' # fs))
       => LET w == obj[ret'.slot].w
          IN  /\ ret'.err \in {INVALID_WALLET_FILENAME, SUCCESS}
              /\ (ret'.err = INVALID_WALLET_FILENAME) <=> ~Writable(w.filename)
              /\ obj' = obj
              /\ (ret'.err = INVALID_WALLET_FILENAME) => (fs' = fs)
              /\ (ret'.err = SUCCESS) => (/\ fs'[w.filename].json = ToJson(w)
                                          /\ \A p \in Paths \ {w.filename} : fs'[p] = fs[p])]_vars

\* C11 witness: the wallet of a file that can only be read was saved, in
\* vain, after its synchronizer wrote to it; the file is the one found
C11_Witness ==
    /\ ret.op = "save" /\ ret.err = INVALID_WALLET_FILENAME
    /\ obj[ret.slot].alive /\ obj[ret.slot].w.filename = ret.filename
    /\ fs[ret.filename].json # <<>> /\ fs[ret.filename].json # ToJson(obj[ret.slot].w)

\* Where init() stands once the wait is over, and once it has returned
AfterWait == {"synchronizer", "bind", "start", "return", "done", "saving", "members", "destroyed"}
Returned == {"done", "saving", "members", "destroyed"}

\* C12: init() returns FAILED_TO_INIT_DAEMON exactly when the callback
\* delivered an error and SUCCESS exactly when it delivered none; the result
\* the wait produced is that value, from the wait to the return, whatever is
\* done to the synchronizer in between.
C12_InitReturnsHandshake ==
    /\ (run.pc \in AfterWait) =>
          /\ run.callback \in {"ok", "error"}
          /\ (run.result = FAILED_TO_INIT_DAEMON) <=> (run.callback = "error")
          /\ (run.result = SUCCESS) <=> (run.callback = "ok")
    /\ (ret.op = "init" /\ ~ret.thrown) => (run.pc \in Returned /\ ret.err = run.result)

\* C12 witness: init() returned the error of the handshake, having made,
\* bound and started the synchronizer of a fresh wallet
C12_Witness ==
    /\ ret.op = "init" /\ ret.err = FAILED_TO_INIT_DAEMON /\ run.caller = "createWallet"
    /\ \E s \in EntrySlots : obj[s].alive /\ obj[s].w.walletSynchronizer.started = 1

\* C13: once the callback has run, init() returns; as long as it has not
\* run, init() has not returned and has neither made, bound nor started a
\* synchronizer.
C13_HandshakeLiveness ==
    /\ (run.callback # "none") ~> (run.pc \in Returned)
    /\ [](run.callback = "none" =>
            /\ run.pc \in {"call", "thrown", "wait"}
            /\ ret.op # "init" \/ ret.thrown
            /\ \A s \in EntrySlots : obj[s].alive =>
                  /\ obj[s].w.walletSynchronizer.started = 0
                  /\ ~obj[s].w.walletSynchronizer.bound
                  /\ (run.caller # "openWallet" => ~obj[s].w.walletSynchronizer.present))

\* C13 witness: init() has returned after the daemon's callback ran
C13_Witness == run.pc = "done" /\ run.callback = "ok" /\ ret.op = "init" /\ ret.err = SUCCESS

\* C14: the step of init() that deals with the synchronizer.  A wallet that
\* has none gets one made of the wallet's daemon, the earliest scan height
\* and the earliest timestamp of its sub-accounts, the wallet's private view
\* key and its event handler, with no progress yet.  A wallet that has one
\* keeps it: it is given the daemon and the event handler and is otherwise
\* as it was, its start and its progress included; and no later step of
\* init() changes the start, the view key or the progress either.
C14_SynchronizerHandoff ==
    [][\A s \in EntrySlots : (obj[s].alive /\ obj'[s].alive) =>
          LET w == obj[s].w
              old == w.walletSynchronizer
              new == obj'[s].w.walletSynchronizer
              a == w.subWallets.accounts
          IN  /\ (run.pc = "synchronizer" /\ run'.pc = "bind") =>
                    /\ new.present /\ new.daemon = w.daemon /\ new.daemon # 0
                    /\ new.eventHandler /\ w.eventHandler
                    /\ ~old.present =>
                          /\ \A i \in 1 .. Len(a) : new.startHeight <= a[i].scanHeight /\ new.startTimestamp <= a[i].syncStartTimestamp
                          /\ \E i \in 1 .. Len(a) : new.startHeight = a[i].scanHeight
                          /\ \E i \in 1 .. Len(a) : new.startTimestamp = a[i].syncStartTimestamp
                          /\ new.privateViewKey = w.privateViewKey
                          /\ new.progress = 0 /\ new.started = 0
                    /\ old.present => new = [old EXCEPT !.daemon = w.daemon, !.eventHandler = TRUE]
              /\ (run.pc \in {"bind", "start", "return"} /\ run'.pc \in {"start", "return", "done"}) =>
                    /\ new.present /\ new.daemon = old.daemon /\ new.eventHandler = old.eventHandler
                    /\ new.startHeight = old.startHeight /\ new.startTimestamp = old.startTimestamp
                    /\ new.privateViewKey = old.privateViewKey /\ new.progress >= old.progress]_vars

\* C14 witness: the synchronizer of a loaded wallet has been given the
\* daemon, and has the progress that was saved
C14_Witness ==
    /\ run.pc = "bind" /\ run.caller = "openWallet"
    /\ \E s \in EntrySlots : /\ obj[s].alive /\ obj[s].w.walletSynchronizer.progress = 1
                              /\ obj[s].w.walletSynchronizer.daemon = obj[s].w.daemon
                              /\ obj[s].w.walletSynchronizer.started = 0

\* C15: start() is called once in a run of init(): the synchronizer is not
\* started before the step that starts it and is started once from then on;
\* that step comes after the callback ran and the result was read, and after
\* the synchronizer's m_subWallets was set to the wallet's; so the wallet an
\* entry point gets back from init() has one synchronizer, bound to its
\* SubWallets and started once.
C15_StartOnceAfterBind ==
    /\ [](\A s \in EntrySlots : obj[s].alive =>
            LET sync == obj[s].w.walletSynchronizer
            IN  /\ sync.started = (IF run.pc \in {"return"} \cup Returned THEN 1 ELSE 0)
                /\ sync.started > 0 => (sync.present /\ sync.bound /\ run.callback # "none" /\ run.result # NONE)
                /\ (run.pc = "done" /\ run.caller \in EntryOps) => (sync.present /\ sync.bound /\ sync.started = 1))
    /\ [][\A s \in EntrySlots : (obj[s].alive /\ obj'[s].alive /\ obj'[s].w.walletSynchronizer.started # obj[s].w.walletSynchronizer.started) =>
             /\ run.pc = "start" /\ run'.pc = "return"
             /\ obj[s].w.walletSynchronizer.bound /\ obj'[s].w.walletSynchronizer.bound
             /\ obj'[s].w.walletSynchronizer.started = obj[s].w.walletSynchronizer.started + 1]_vars

\* C15 witness: openWallet's init() has returned, and the synchronizer that
\* was loaded from the file is bound and started once
C15_Witness ==
    /\ run.pc = "done" /\ run.caller = "openWallet" /\ ret.op = "init"
    /\ \E s \in EntrySlots : /\ obj[s].alive /\ obj[s].w.walletSynchronizer.started = 1
                              /\ obj[s].w.walletSynchronizer.bound

\* C18: init() on an object with no daemon throws at once: the step that
\* throws is the first of the call, it changes no object and no file, no
\* callback was handed to a daemon and no synchronizer was made, bound or
\* started.  Every entry point calls init() on a wallet that has a daemon,
\* so only a direct call throws.
C18_FatalPathUnreachable ==
    /\ [](/\ (run.pc = "call" /\ run.caller \in EntryOps) => \A s \in EntrySlots : obj[s].alive /\ obj[s].w.daemon # 0
          /\ run.pc = "thrown" =>
                /\ run.caller \notin EntryOps
                /\ ret.op = "init" /\ ret.thrown
                /\ run.callback = "none" /\ run.result = NONE
                /\ \A s \in EntrySlots : /\ obj[s].alive /\ obj[s].w.daemon = 0
                                          /\ ~obj[s].w.walletSynchronizer.present
                                          /\ ~obj[s].w.walletSynchronizer.bound
                                          /\ obj[s].w.walletSynchronizer.started = 0)
    /\ [][(run'.pc = "thrown" /\ run.pc # "thrown") =>
             (run.pc = "call" /\ obj' = obj /\ fs' = fs /\ \A s \in EntrySlots : obj[s].w.daemon = 0)]_vars
    /\ [][(run.pc = "call" /\ run'.pc # "call" /\ \A s \in EntrySlots : obj[s].w.daemon = 0) => run'.pc = "thrown"]_vars

\* C18 witness: a direct call of init() on a default-constructed object threw
C18_Witness == run.pc = "thrown" /\ run.caller = "init" /\ ret.thrown

\* C16: the address of the sub-account of a wallet importViewWallet returns
\* is the address the caller gave; the address of the sub-account of a
\* wallet the other three creation entry points return is the one computed
\* from its private spend key and the private view key.
C16_ViewAddressIsCallerSupplied ==
    (ret.op \in CreationOps /\ ret.err = SUCCESS /\ obj[ret.slot].alive /\ obj[ret.slot].w.subWallets.present) =>
        LET w == obj[ret.slot].w
            a == w.subWallets.accounts[1]
        IN  IF ret.op = "importViewWallet"
            THEN a.address = ret.address
            ELSE a.address = addressFromPrivateKeys(a.privateSpendKey, w.privateViewKey)

\* C17: the destructor's save() does not run while the synchronizer still
\* writes: no write of the synchronizer into the SubWallets comes between
\* the time save() serializes the wallet and the end of the synchronizer.
C17_NoWriteAroundFinalSave ==
    [][(\E s \in EntrySlots : /\ obj[s].alive /\ obj'[s].alive
                               /\ obj'[s].w.subWallets # obj[s].w.subWallets)
       => run.pc \notin {"saving", "members"}]_vars

\* The fields operator= copies
Moved(w) == <<w.filename, w.password, w.privateViewKey, w.isViewWallet, w.daemon, w.subWallets, w.walletSynchronizer, w.eventHandler>>

\* C19: after a move the destination holds the source's filename, password,
\* private view key, view-wallet flag, daemon, subWallets, synchronizer and
\* event handler, and the source holds none of the last four, so that its
\* destructor saves nothing; no two live objects hold the same daemon; and
\* when a destructor has saved a wallet, no object is left that holds that
\* wallet's daemon, so no later destructor saves it again.
C19_OwnershipTransfer ==
    /\ [](\A s, t \in Slots : (s # t /\ obj[s].alive /\ obj[t].alive /\ obj[s].w.daemon # 0)
                                => obj[s].w.daemon # obj[t].w.daemon)
    /\ [][(/\ ret'.op \in {"moveConstruct", "moveAssign"}
           /\ obj' # obj
           /\ ~\E s \in Slots : obj[s].w.daemon # 0 /\ obj'[s].w.daemon = obj[s].w.daemon /\ obj'[s] # obj[s])
          => LET dst == obj'[ret'.slot]
                 old == obj'[ret'.src]
             IN  /\ dst.alive /\ old.alive /\ obj[ret'.src].alive
                 /\ Moved(dst.w) = Moved(obj[ret'.src].w)
                 /\ old.w.daemon = 0 /\ ~old.w.subWallets.present
                 /\ ~old.w.walletSynchronizer.present /\ ~old.w.eventHandler
                 /\ DestructorSaves(old.w) = 0
                 /\ \A salt \in Salts : Destructor(old.w, fs', salt) = fs
                 /\ fs' = fs]_vars
    /\ [][(ret'.op = "destroy" /\ obj[ret'.slot].alive /\ ~obj'[ret'.slot].alive)
          => /\ (obj[ret'.slot].w.movedFrom => (ret'.saves = 0 /\ fs' = fs))
             /\ (ret'.saves = 1 => \A t \in Slots : obj'[t].alive => obj'[t].w.daemon # obj[ret'.slot].w.daemon)]_vars

\* C19 witness: a wallet was moved into an object that held another wallet,
\* and the destination holds the daemon and a started synchronizer
C19_Witness ==
    /\ ret.op = "moveAssign"
    /\ obj[ret.slot].alive /\ obj[ret.slot].w.daemon # 0 /\ obj[ret.slot].w.walletSynchronizer.started = 1
    /\ obj[ret.src].alive /\ obj[ret.src].w.daemon = 0 /\ obj[ret.src].w.origin = "real"

\* C20: a creation entry point that is called on a path where there is no
\* file and that fails with INVALID_MNEMONIC or FAILED_TO_INIT_DAEMON leaves a
\* file there: the empty file of the writability probe, or the container the
\* destructor of the discarded wallet saved; every creation entry point
\* called on that path afterwards returns WALLET_FILE_ALREADY_EXISTS.
C20_FailedCreationLeavesFile ==
    [][(/\ ret'.op \in CreationOps
        /\ ~obj[ret'.slot].alive /\ obj'[ret'.slot].alive
        /\ ~fs[ret'.filename].exists
        /\ ret'.err \in {INVALID_MNEMONIC, FAILED_TO_INIT_DAEMON})
       => LET f == ret'.filename
          IN  /\ fs'[f].exists
              /\ (ret'.err = INVALID_MNEMONIC) => (ret'.op = "importWalletFromSeed" /\ fs'[f].data = <<>> /\ ret'.saves = 0)
              /\ (ret'.err = FAILED_TO_INIT_DAEMON) => (fs'[f].json # <<>> /\ fs'[f].password = ret'.password /\ ret'.saves = 1)
              /\ IsPlaceholder(obj'[ret'.slot].w)
              /\ \A pw \in Passwords, k \in SpendKeys, v \in ViewKeys, m \in Seeds, h \in Heights, ce \in BOOLEAN, salt \in Salts :
                    /\ createWallet(fs', f, pw, k, 1, ce, salt).err = WALLET_FILE_ALREADY_EXISTS
                    /\ importWalletFromSeed(fs', m, f, pw, h, 1, ce, salt).err = WALLET_FILE_ALREADY_EXISTS
                    /\ importWalletFromKeys(fs', k, v, f, pw, h, 1, ce, salt).err = WALLET_FILE_ALREADY_EXISTS
                    /\ importViewWallet(fs', v, addressFromPrivateKeys(k, v), f, pw, h, 1, ce, salt).err = WALLET_FILE_ALREADY_EXISTS]_vars

\* C20 witness: importWalletFromSeed refused a mnemonic, and the path holds
\* an empty file; the same call again is refused for the file
C20_Witness ==
    /\ ret.op = "importWalletFromSeed" /\ ret.err = WALLET_FILE_ALREADY_EXISTS
    /\ fs[ret.filename].exists /\ fs[ret.filename].data = <<>>

\* The errors openWallet rejects a file with
RejectedOpen == {FILENAME_NON_EXISTENT, NOT_A_WALLET_FILE, WALLET_FILE_CORRUPTED, WRONG_PASSWORD}

\* C21: a call of openWallet that returns FILENAME_NON_EXISTENT,
\* NOT_A_WALLET_FILE, WALLET_FILE_CORRUPTED or WRONG_PASSWORD leaves every
\* file as it was (where there was none there is none); it made no save, did
\* not reach the stages that make the daemon and call init(), and returns an
\* object with no daemon and no synchronizer; the destructor of that object
\* makes no save and leaves every file as it was.
C21_RejectedOpenLeavesFile ==
    /\ [][(/\ ret'.op = "openWallet"
           /\ ~obj[ret'.slot].alive /\ obj'[ret'.slot].alive
           /\ ret'.err \in RejectedOpen)
          => LET w == obj'[ret'.slot].w
             IN  /\ fs' = fs
                 /\ ret'.saves = 0
                 /\ \A i \in 1 .. Len(ret'.stages) : ret'.stages[i] \notin {"jsonParse", "daemon", "init"}
                 /\ w.daemon = 0 /\ ~w.walletSynchronizer.present /\ w.walletSynchronizer.started = 0
                 /\ ~w.subWallets.present
                 /\ DestructorSaves(w) = 0
                 /\ \A salt \in Salts : Destructor(w, fs', salt) = fs]_vars
    /\ [][(/\ ret.op = "openWallet" /\ ret.err \in RejectedOpen
           /\ ret'.op = "destroy" /\ ret'.slot = ret.slot)
          => (fs' = fs /\ ret'.saves = 0)]_vars

\* C21 witness: a saved wallet file was opened with another password and
\* refused, and it is as it was saved
C21_Witness ==
    /\ ret.op = "openWallet" /\ ret.err = WRONG_PASSWORD
    /\ fs[ret.filename].data \in SavedContainers
    /\ obj[ret.slot].alive /\ obj[ret.slot].w.daemon = 0
====
